---- MODULE Spec2Model ----
(***************************************************************************)
(* Model of the Hyper-Desk client agent (src/main.go): a one-time login,   *)
(* a cron job that collects the Proxmox inventory (getVMs) and posts it    *)
(* (sendToServer), and the unit conversion applied to every record.        *)
(***************************************************************************)
EXTENDS Integers, Sequences, FiniteSets, TLC

\* ------------------------------------------------------------------ bounds
\* Number of tick goroutines the model tracks at the same time.
MaxInFlight == 2
\* Longest decoded inventory drawn for the collector applied on its own.
MaxNormRecs == 3
\* Last second of wall-clock time followed by the timed specification.
MaxClock == 11

Slots == 1..MaxInFlight

\* ------------------------------------------------------- program constants
\* http.StatusOK
StatusOK == 200
\* 1024 * 1024, the divisor of mem and maxmem
MemDivisor == 1048576
\* 1024 * 1024 * 1024, the divisor of disk and maxdisk
DiskDivisor == 1073741824

VARIABLES
    mainpc,        \* position of main(): loadenv, login, addfunc, start, blocked, fatal
    userID,        \* the package-level variable userID
    loginResp,     \* what the login exchange produced in this run ("none" before it)
    loginCalls,    \* number of calls of login() in this run
    entries,       \* number of jobs registered with the cron scheduler
    cronRunning,   \* TRUE once c.Start() has been called
    tick,          \* the invocations of the job closure, one per slot
    collected,     \* TRUE once getVMs has been invoked in this run
    dispatched,    \* TRUE once sendToServer has been invoked in this run
    failures,      \* TRUE once a tick has logged an error in this run
    now,           \* wall-clock time in seconds (timed specification only)
    next,          \* the cron entry's next activation time, -1 while not started
    lastFire,      \* time of the latest activation of the job, -1 if none
    gap,           \* seconds between the latest two activations, 0 if fewer than two
    resources,     \* conversion specification: the decoded inventory
    batch          \* conversion specification: the Response getVMs returned

mainvars == <<mainpc, userID, loginResp, loginCalls, entries, cronRunning>>
tickvars == <<tick, collected, dispatched, failures>>
clockvars == <<now, next, lastFire, gap>>
normvars == <<resources, batch>>
vars == <<mainpc, userID, loginResp, loginCalls, entries, cronRunning,
          tick, collected, dispatched, failures, now, next, lastFire, gap,
          resources, batch>>

\* ------------------------------------------------------------------ data
\* A raw byte amount of the inventory is a pair <<hi, lo>> standing for
\* hi * 1024^3 + lo with 0 <= lo < 1024^3 (the values exceed 32 bits).
Amount(hi, lo) == <<hi, lo>>

\* One element of the pvesh output decoded into a VMInfo (json.Unmarshal).
RawVM(uid, name, vmid, type, status, cpu, maxcpu, mem, maxmem, disk, maxdisk) ==
    [UserID |-> uid, Name |-> name, VMID |-> vmid, Type |-> type,
     Status |-> status, CPU |-> cpu, MaxCPU |-> maxcpu,
     Mem |-> mem, MaxMem |-> maxmem, Disk |-> disk, MaxDisk |-> maxdisk]

\* userId values the login endpoint hands out.
UserIds == {"u1", "u2"}

\* What http.Post / client.Do can produce: a transport error or a status.
TransportErr == [kind |-> "transport_err", status |-> 0]
HttpStatus(code) == [kind |-> "resp", status |-> code]

\* Outcomes of the login exchange: transport error, a non-200 status, a 200
\* whose body does not decode, a 200 with a LoginResponse.
LoginOutcomes ==
    {[kind |-> "transport_err", status |-> 0, decodes |-> FALSE, UserID |-> ""],
     [kind |-> "resp", status |-> 401, decodes |-> FALSE, UserID |-> ""],
     [kind |-> "resp", status |-> StatusOK, decodes |-> FALSE, UserID |-> ""]}
    \cup {[kind |-> "resp", status |-> StatusOK, decodes |-> TRUE, UserID |-> u] :
            u \in UserIds}

NoLogin == [kind |-> "none", status |-> 0, decodes |-> FALSE, UserID |-> ""]

\* Outcomes of the report POST.
SendOutcomes == {TransportErr, HttpStatus(StatusOK), HttpStatus(500)}

\* ------------------------------------------------------- unit conversion
\* float64(x) / divisor: exact, the divisor being a power of two. The
\* quotient is whole + rem / den with 0 <= rem < den.
Divide(x, divisor) ==
    [whole |-> x[1] * (DiskDivisor \div divisor) + x[2] \div divisor,
     rem   |-> x[2] % divisor,
     den   |-> divisor]

\* 100 * rem / den as its integer part fl and the remainder r over den, in
\* steps that stay within 32 bits: directly for a denominator up to 1024^2,
\* else with rem = c * 1024 + d.
HundredthsParts(q) ==
    IF q.den <= 1048576
    THEN [fl |-> (100 * q.rem) \div q.den, r |-> (100 * q.rem) % q.den]
    ELSE LET e == q.den \div 1024
             c == q.rem \div 1024
             d == q.rem % 1024
             t == ((100 * c) % e) * 1024 + 100 * d
         IN  [fl |-> (100 * c) \div e + t \div q.den, r |-> t % q.den]

\* Variant of RoundedHundredths that cuts the digits after the second.
RoundedHundredths_Truncate(q) == HundredthsParts(q).fl

\* Variant of RoundedHundredths that adds half a hundredth to the value
\* before rounding it.
RoundedHundredths_AddHalf(q) ==
    LET fl == HundredthsParts(q).fl
        r  == HundredthsParts(q).r
    IN  IF r > 0 THEN fl + 1
        ELSE IF fl % 2 = 0 THEN fl ELSE fl + 1

\* 100 * rem / den rounded to the nearest integer, ties to even.
RoundedHundredths(q) ==
    LET fl == HundredthsParts(q).fl
        r  == HundredthsParts(q).r
    IN  IF 2 * r > q.den THEN fl + 1
        ELSE IF 2 * r < q.den THEN fl
        ELSE IF fl % 2 = 0 THEN fl ELSE fl + 1

\* fmt.Sprintf("%.2f", v): the decimal text of v with two digits after the
\* point, correctly rounded from the exact value (ties to even).
Sprintf2f(q) ==
    LET h == 100 * q.whole + RoundedHundredths(q)
    IN  [int |-> h \div 100, frac |-> h % 100]

\* strconv.ParseFloat(text, 64): the number the text denotes, in hundredths.
ParseFloat(text) == 100 * text.int + text.frac

\* Variant of Normalize that keeps the userId decoded from the inventory
\* when there is one.
Normalize_KeepsRawUserID(res, uid) ==
    [UserID  |-> IF res.UserID # "" THEN res.UserID ELSE uid,
     Name    |-> res.Name,
     VMID    |-> res.VMID,
     Type    |-> res.Type,
     Status  |-> res.Status,
     CPU     |-> res.CPU,
     MaxCPU  |-> res.MaxCPU,
     Mem     |-> ParseFloat(Sprintf2f(Divide(res.Mem, MemDivisor))),
     MaxMem  |-> ParseFloat(Sprintf2f(Divide(res.MaxMem, MemDivisor))),
     Disk    |-> ParseFloat(Sprintf2f(Divide(res.Disk, DiskDivisor))),
     MaxDisk |-> ParseFloat(Sprintf2f(Divide(res.MaxDisk, DiskDivisor)))]

\* Variant of Normalize that fills Status from the element's Type.
Normalize_StatusFromType(res, uid) ==
    [UserID  |-> uid,
     Name    |-> res.Name,
     VMID    |-> res.VMID,
     Type    |-> res.Type,
     Status  |-> res.Type,
     CPU     |-> res.CPU,
     MaxCPU  |-> res.MaxCPU,
     Mem     |-> ParseFloat(Sprintf2f(Divide(res.Mem, MemDivisor))),
     MaxMem  |-> ParseFloat(Sprintf2f(Divide(res.MaxMem, MemDivisor))),
     Disk    |-> ParseFloat(Sprintf2f(Divide(res.Disk, DiskDivisor))),
     MaxDisk |-> ParseFloat(Sprintf2f(Divide(res.MaxDisk, DiskDivisor)))]

\* The normalized record built from one decoded element (lines 156-174).
Normalize(res, uid) ==
    [UserID  |-> uid,
     Name    |-> res.Name,
     VMID    |-> res.VMID,
     Type    |-> res.Type,
     Status  |-> res.Status,
     CPU     |-> res.CPU,
     MaxCPU  |-> res.MaxCPU,
     Mem     |-> ParseFloat(Sprintf2f(Divide(res.Mem, MemDivisor))),
     MaxMem  |-> ParseFloat(Sprintf2f(Divide(res.MaxMem, MemDivisor))),
     Disk    |-> ParseFloat(Sprintf2f(Divide(res.Disk, DiskDivisor))),
     MaxDisk |-> ParseFloat(Sprintf2f(Divide(res.MaxDisk, DiskDivisor)))]

\* Variant of Reported that forgets the containers.
Reported_QemuOnly(res) == res.Type = "qemu"

\* The filter of line 176.
Reported(res) == res.Type = "qemu" \/ res.Type = "lxc"

\* The loop of lines 153-179 over the decoded elements, vms being the slice
\* built so far.
RECURSIVE Convert(_, _, _)
Convert(rs, uid, vms) ==
    IF rs = <<>> THEN vms
    ELSE LET res == Head(rs)
             vm  == Normalize(res, uid)
         IN  Convert(Tail(rs), uid,
                     IF Reported(res) THEN Append(vms, vm) ELSE vms)

\* The nil *Response of an error return.
NilResponse == [UserId |-> "", Vms |-> <<>>]

\* getVMs on one run of the inventory command: out.kind is "exec_err" (the
\* command failed), "bad_json" (Unmarshal failed, out.recs holding what was
\* decoded before the error) or "ok".
getVMs(out, uid) ==
    IF out.kind = "exec_err" THEN [err |-> "exec", resp |-> NilResponse]
    ELSE IF out.kind = "bad_json" THEN [err |-> "unmarshal", resp |-> NilResponse]
    ELSE [err |-> "none",
          resp |-> [UserId |-> uid, Vms |-> Convert(out.recs, uid, <<>>)]]

\* ------------------------------------------------------------- inventory
SeqsUpTo(S, n) == UNION {[1..k -> S] : k \in 0..n}

\* Inventory elements of the process model: a virtual machine, whose JSON
\* object carries a userId of its own, and a node.
VmA == RawVM("u2", "web", 100, "qemu", "running", 5, 2,
             Amount(2, 0), Amount(4, 0), Amount(3, 0), Amount(32, 0))
NodeA == RawVM("", "pve", 0, "node", "online", 1, 8,
               Amount(7, 536870912), Amount(16, 0), Amount(9, 0), Amount(100, 0))

\* What one run of the inventory command can give the collector: a failed
\* command, output that stops decoding after one element, and arrays with
\* and without reported elements.
Outputs ==
    {[kind |-> "exec_err", recs |-> <<>>],
     [kind |-> "bad_json", recs |-> <<VmA>>],
     [kind |-> "ok", recs |-> <<NodeA>>],
     [kind |-> "ok", recs |-> <<VmA>>],
     [kind |-> "ok", recs |-> <<VmA, NodeA>>]}

NoOutput == [kind |-> "none", recs |-> <<>>]
NoResult == [kind |-> "none", status |-> 0]

\* ------------------------------------------------------------ the process
\* An invocation of the job closure: pc is "free" (no invocation in the
\* slot), "getVMs" (invoked, getVMs not yet returned), "send" (response
\* built, sendToServer not yet returned) or "returned".
BlankTick(pc, af) ==
    [pc |-> pc, afterFail |-> af, output |-> NoOutput, response |-> NilResponse,
     posted |-> <<>>, err |-> "none", result |-> NoResult]

Init ==
    /\ mainpc = "loadenv"
    /\ userID = ""
    /\ loginResp = NoLogin
    /\ loginCalls = 0
    /\ entries = 0
    /\ cronRunning = FALSE
    /\ tick = [s \in Slots |-> BlankTick("free", FALSE)]
    /\ collected = FALSE
    /\ dispatched = FALSE
    /\ failures = FALSE
    /\ now = 0
    /\ next = -1
    /\ lastFire = -1
    /\ gap = 0
    /\ resources = <<>>
    /\ batch = <<>>

\* The process has not been ended by log.Fatal.
Alive == mainpc # "fatal"

\* godotenv.Load and its check (lines 55-58), then the prompts.
MainLoadEnv ==
    /\ mainpc = "loadenv"
    /\ \E ok \in BOOLEAN : mainpc' = IF ok THEN "login" ELSE "fatal"
    /\ UNCHANGED <<userID, loginResp, loginCalls, entries, cronRunning>>
    /\ UNCHANGED <<tickvars, clockvars, normvars>>

\* login (lines 106-133) on one outcome of the exchange: the error, or the
\* decoded LoginResponse.
login(o) ==
    IF o.kind = "transport_err" THEN [err |-> "request", UserID |-> ""]
    ELSE IF o.status # StatusOK THEN [err |-> "status", UserID |-> ""]
    ELSE IF ~o.decodes THEN [err |-> "decode", UserID |-> ""]
    ELSE [err |-> "none", UserID |-> o.UserID]

\* Variant of MainLogin that goes on after a failed login.
MainLogin_IgnoreError ==
    /\ mainpc = "login"
    /\ \E o \in LoginOutcomes :
         /\ loginResp' = o
         /\ loginCalls' = loginCalls + 1
         /\ userID' = login(o).UserID
         /\ mainpc' = "addfunc"
    /\ UNCHANGED <<entries, cronRunning, tickvars, clockvars, normvars>>

\* Lines 73-78: the login call, log.Fatalf on its error, userID set.
MainLogin ==
    /\ mainpc = "login"
    /\ \E o \in LoginOutcomes :
         /\ loginResp' = o
         /\ loginCalls' = loginCalls + 1
         /\ IF login(o).err # "none"
            THEN mainpc' = "fatal" /\ userID' = userID
            ELSE mainpc' = "addfunc" /\ userID' = login(o).UserID
    /\ UNCHANGED <<entries, cronRunning, tickvars, clockvars, normvars>>

\* Lines 81-98: cron.New and AddFunc, the job is registered.
MainAddFunc ==
    /\ mainpc = "addfunc"
    /\ entries' = entries + 1
    /\ mainpc' = "start"
    /\ UNCHANGED <<userID, loginResp, loginCalls, cronRunning>>
    /\ UNCHANGED <<tickvars, clockvars, normvars>>

\* Lines 99-102: c.Start, then main blocks in select {}.
StartBody ==
    /\ mainpc = "start"
    /\ cronRunning' = TRUE
    /\ mainpc' = "blocked"
    /\ UNCHANGED <<userID, loginResp, loginCalls, entries, tickvars, normvars>>

MainStart == StartBody /\ UNCHANGED clockvars

\* The scheduler runs the job in a goroutine of its own: the lowest slot
\* holding no running invocation takes it.
Available(s) == tick[s].pc \in {"free", "returned"}

FireBody ==
    /\ Alive
    /\ cronRunning
    /\ entries > 0
    /\ \E s \in Slots :
         /\ Available(s)
         /\ \A t \in Slots : t < s => ~Available(t)
         /\ tick' = [tick EXCEPT ![s] = BlankTick("getVMs", failures)]
    /\ UNCHANGED <<mainvars, collected, dispatched, failures, normvars>>

\* An activation of the job, time left out.
Fire == FireBody /\ UNCHANGED clockvars

\* Variant of TickCollect that goes on to the dispatch after a failed
\* collection.
TickCollect_NoReturn(s) ==
    /\ Alive
    /\ tick[s].pc = "getVMs"
    /\ \E out \in Outputs :
         LET r == getVMs(out, userID)
         IN  /\ tick' = [tick EXCEPT ![s].output = out,
                                     ![s].response = [UserId |-> userID, Vms |-> r.resp.Vms],
                                     ![s].err = IF r.err # "none" THEN "collect" ELSE "none",
                                     ![s].pc = "send"]
             /\ failures' = (failures \/ r.err # "none")
    /\ collected' = TRUE
    /\ UNCHANGED <<mainvars, dispatched, clockvars, normvars>>

\* Variant of TickCollect whose slice of records is shared by the
\* invocations: it starts from what another invocation left.
TickCollect_SharedSlice(s) ==
    /\ Alive
    /\ tick[s].pc = "getVMs"
    /\ \E out \in Outputs, o \in Slots :
         LET r == getVMs(out, userID)
         IN  /\ tick' = [tick EXCEPT ![s].output = out,
                                     ![s].response =
                                         IF r.err # "none" THEN NilResponse
                                         ELSE [UserId |-> userID,
                                               Vms |-> tick[o].response.Vms \o r.resp.Vms],
                                     ![s].err = IF r.err # "none" THEN "collect" ELSE "none",
                                     ![s].pc = IF r.err # "none" THEN "returned" ELSE "send"]
             /\ failures' = (failures \/ r.err # "none")
    /\ collected' = TRUE
    /\ UNCHANGED <<mainvars, dispatched, clockvars, normvars>>

\* Variant of TickCollect in which the collector stores the userId of the
\* last decoded element in userID.
TickCollect_WritesUserID(s) ==
    /\ Alive
    /\ tick[s].pc = "getVMs"
    /\ \E out \in Outputs :
         LET r == getVMs(out, userID)
         IN  /\ tick' = [tick EXCEPT ![s].output = out,
                                     ![s].response =
                                         IF r.err # "none" THEN NilResponse
                                         ELSE [UserId |-> userID, Vms |-> r.resp.Vms],
                                     ![s].err = IF r.err # "none" THEN "collect" ELSE "none",
                                     ![s].pc = IF r.err # "none" THEN "returned" ELSE "send"]
             /\ failures' = (failures \/ r.err # "none")
             /\ userID' = IF out.kind = "ok" /\ out.recs # <<>>
                          THEN out.recs[Len(out.recs)].UserID ELSE userID
    /\ collected' = TRUE
    /\ UNCHANGED <<mainpc, loginResp, loginCalls, entries, cronRunning>>
    /\ UNCHANGED <<dispatched, clockvars, normvars>>

\* Variant of TickCollect that returns without a dispatch when no record
\* is left after the filter.
TickCollect_SkipEmpty(s) ==
    /\ Alive
    /\ tick[s].pc = "getVMs"
    /\ \E out \in Outputs :
         LET r == getVMs(out, userID)
         IN  /\ tick' = [tick EXCEPT ![s].output = out,
                                     ![s].response =
                                         IF r.err # "none" THEN NilResponse
                                         ELSE [UserId |-> userID, Vms |-> r.resp.Vms],
                                     ![s].err = IF r.err # "none" THEN "collect" ELSE "none",
                                     ![s].pc = IF r.err # "none" \/ r.resp.Vms = <<>>
                                               THEN "returned" ELSE "send"]
             /\ failures' = (failures \/ r.err # "none")
    /\ collected' = TRUE
    /\ UNCHANGED <<mainvars, dispatched, clockvars, normvars>>

\* Lines 83-92: getVMs; on its error the log line and the return, else the
\* Response built from userID and the returned records.
TickCollect(s) ==
    /\ Alive
    /\ tick[s].pc = "getVMs"
    /\ \E out \in Outputs :
         LET r == getVMs(out, userID)
         IN  /\ tick' = [tick EXCEPT ![s].output = out,
                                     ![s].response =
                                         IF r.err # "none" THEN NilResponse
                                         ELSE [UserId |-> userID, Vms |-> r.resp.Vms],
                                     ![s].err = IF r.err # "none" THEN "collect" ELSE "none",
                                     ![s].pc = IF r.err # "none" THEN "returned" ELSE "send"]
             /\ failures' = (failures \/ r.err # "none")
    /\ collected' = TRUE
    /\ UNCHANGED <<mainvars, dispatched, clockvars, normvars>>

\* Variant of sendToServer that leaves out the check of the status code.
sendToServer_TransportOnly(res) ==
    IF res.kind = "transport_err" THEN "request" ELSE "none"

\* sendToServer (lines 190-214) on one outcome of the POST: nil or an error.
sendToServer(res) ==
    IF res.kind = "transport_err" THEN "request"
    ELSE IF res.status # StatusOK THEN "status"
    ELSE "none"

\* Variant of TickSend that ends the process on a dispatch error.
TickSend_Fatal(s) ==
    /\ Alive
    /\ tick[s].pc = "send"
    /\ \E res \in SendOutcomes :
         /\ tick' = [tick EXCEPT ![s].posted = Append(@, tick[s].response),
                                 ![s].result = res,
                                 ![s].err = IF sendToServer(res) # "none"
                                            THEN "dispatch" ELSE "none",
                                 ![s].pc = "returned"]
         /\ failures' = (failures \/ sendToServer(res) # "none")
         /\ mainpc' = IF sendToServer(res) # "none" THEN "fatal" ELSE mainpc
    /\ dispatched' = TRUE
    /\ UNCHANGED <<userID, loginResp, loginCalls, entries, cronRunning>>
    /\ UNCHANGED <<collected, clockvars, normvars>>

\* Variant of TickSend that sends again after a dispatch error.
TickSend_Retry(s) ==
    /\ Alive
    /\ tick[s].pc = "send"
    /\ \E res \in SendOutcomes :
         /\ tick' = [tick EXCEPT ![s].posted = Append(@, tick[s].response),
                                 ![s].result = res,
                                 ![s].err = IF sendToServer(res) # "none"
                                            THEN "dispatch" ELSE "none",
                                 ![s].pc = IF sendToServer(res) # "none"
                                           THEN "send" ELSE "returned"]
         /\ failures' = (failures \/ sendToServer(res) # "none")
    /\ dispatched' = TRUE
    /\ UNCHANGED <<mainvars, collected, clockvars, normvars>>

\* Lines 94-98: sendToServer with the response; on its error the log line;
\* the closure returns.
TickSend(s) ==
    /\ Alive
    /\ tick[s].pc = "send"
    /\ \E res \in SendOutcomes :
         /\ tick' = [tick EXCEPT ![s].posted = Append(@, tick[s].response),
                                 ![s].result = res,
                                 ![s].err = IF sendToServer(res) # "none"
                                            THEN "dispatch" ELSE "none",
                                 ![s].pc = "returned"]
         /\ failures' = (failures \/ sendToServer(res) # "none")
    /\ dispatched' = TRUE
    /\ UNCHANGED <<mainvars, collected, clockvars, normvars>>

Collect == \E s \in Slots : TickCollect(s)
Send == \E s \in Slots : TickSend(s)

Next ==
    \/ MainLoadEnv
    \/ MainLogin
    \/ MainAddFunc
    \/ MainStart
    \/ Fire
    \/ Collect
    \/ Send

Spec == Init /\ [][Next]_vars

\* The scheduler's timer goes off at every activation time: an activation
\* that stays possible happens.
FairSpec == Spec /\ WF_vars(Fire)

\* ------------------------------------------------------------- the clock
\* The schedule handed to AddFunc (line 82), field by field.
CronSpec == <<"*/5", "*", "*", "*", "*">>

\* The step of one field: "*/n" is every n-th value, "*" every value.
Step(f) == IF f = "*/5" THEN 5 ELSE 1

\* AddFunc of the package imported at line 14 (github.com/robfig/cron, the
\* import path of the releases before v3) parses the schedule with the
\* package's default parser, whose fields are, in order: seconds, minutes,
\* hours, day of month, month and an optional day of week. The first of
\* the five fields of line 82 is therefore the seconds field.
SecondsField == CronSpec[1]
MinutesField == CronSpec[2]

\* Whether the schedule holds of the wall-clock time t (in seconds).
Matches(t) ==
    /\ (t % 60) % Step(SecondsField) = 0
    /\ ((t \div 60) % 60) % Step(MinutesField) = 0

\* Schedule.Next(t): the earliest activation time after t.
ScheduleNext(t) ==
    CHOOSE u \in (t + 1)..(t + 3600) :
        Matches(u) /\ \A v \in (t + 1)..(u - 1) : ~Matches(v)

\* c.Start with the clock: the entry's next activation is computed.
TimedStart ==
    /\ StartBody
    /\ next' = ScheduleNext(now)
    /\ UNCHANGED <<now, lastFire, gap>>

\* The scheduler's timer goes off at the entry's activation time: the job
\* is run and the next activation computed.
CronFire ==
    /\ now = next
    /\ FireBody
    /\ lastFire' = now
    /\ gap' = IF lastFire = -1 THEN 0 ELSE now - lastFire
    /\ next' = ScheduleNext(now)
    /\ UNCHANGED now

\* A second of wall-clock time passes; a due activation is not held back.
Advance ==
    /\ now < MaxClock
    /\ ~(cronRunning /\ now = next)
    /\ now' = now + 1
    /\ UNCHANGED <<mainvars, tickvars, normvars, next, lastFire, gap>>

NextClock ==
    \/ MainLoadEnv
    \/ MainLogin
    \/ MainAddFunc
    \/ TimedStart
    \/ CronFire
    \/ Collect
    \/ Send
    \/ Advance

SpecClock == Init /\ [][NextClock]_vars

\* ------------------------------------------------- the collector, applied
\* Inventory elements for the conversion: both reported types, other
\* types, values on and around the rounding ties.
VmB == RawVM("zz", "db", 101, "qemu", "stopped", 0, 4,
             Amount(0, 1), Amount(0, 5243), Amount(0, 5368709), Amount(0, 5368710))
CtA == RawVM("", "proxy", 200, "lxc", "running", 12, 1,
             Amount(0, 131072), Amount(0, 393216),
             Amount(0, 134217728), Amount(0, 402653184))
CtB == RawVM("u1", "cache", 201, "lxc", "running", 50, 2,
             Amount(0, 5242), Amount(1, 1073741823), Amount(0, 0), Amount(1, 5368709))
StorageA == RawVM("", "local", 0, "storage", "available", 0, 0,
                  Amount(0, 0), Amount(0, 0), Amount(3, 0), Amount(64, 0))
UpperA == RawVM("", "caps", 300, "QEMU", "running", 1, 1,
                Amount(1, 0), Amount(1, 0), Amount(1, 0), Amount(1, 0))
NormSamples == {VmA, VmB, CtA, CtB, NodeA, StorageA, UpperA}

\* The process after a successful startup, with a decoded inventory at hand.
InitNorm ==
    /\ mainpc = "blocked"
    /\ userID \in UserIds
    /\ loginResp = [kind |-> "resp", status |-> StatusOK, decodes |-> TRUE,
                    UserID |-> userID]
    /\ loginCalls = 1
    /\ entries = 1
    /\ cronRunning = TRUE
    /\ tick = [s \in Slots |-> BlankTick("free", FALSE)]
    /\ collected = FALSE
    /\ dispatched = FALSE
    /\ failures = FALSE
    /\ now = 0
    /\ next = -1
    /\ lastFire = -1
    /\ gap = 0
    /\ resources \in SeqsUpTo(NormSamples, MaxNormRecs)
    /\ batch = <<>>

\* getVMs on the decoded inventory; batch holds the Response it returned.
ApplyGetVMs ==
    /\ batch = <<>>
    /\ batch' = <<getVMs([kind |-> "ok", recs |-> resources], userID).resp>>
    /\ collected' = TRUE
    /\ UNCHANGED <<mainvars, tick, dispatched, failures, clockvars, resources>>

NextNorm == ApplyGetVMs

SpecNorm == InitNorm /\ [][NextNorm]_vars

\* ------------------------------------------------------------ the claims
\* The login exchange of this run ended in an error.
LoginFailed == loginCalls > 0 /\ login(loginResp).err # "none"

\* C1: when the login exchange fails (transport error, a status other than
\* 200, a body that does not decode) the process ends at startup: no job is
\* registered, the scheduler is not started, and neither getVMs nor
\* sendToServer is ever invoked.
C1_FailedLoginEndsStartup ==
    LoginFailed =>
        /\ mainpc = "fatal"
        /\ entries = 0
        /\ ~cronRunning
        /\ ~collected
        /\ ~dispatched
        /\ \A s \in Slots : tick[s].pc = "free"

\* The login endpoint answered 401 and the process has ended.
C1_Witness ==
    /\ loginResp.kind = "resp"
    /\ loginResp.status = 401
    /\ mainpc = "fatal"

\* The invocation in slot s has returned after logging an error.
Failed(s) == tick[s].pc = "returned" /\ tick[s].err # "none"

\* C2: after a successful login no failed tick ends the process or stops
\* the scheduler: main stays blocked with the job registered and the
\* scheduler running, and once a tick has failed the job is activated
\* again, that activation being in its call of the collector.
C2_FailedTickStopsNothing ==
    /\ [](failures => mainpc = "blocked" /\ cronRunning /\ entries = 1)
    /\ (\E s \in Slots : Failed(s)) ~>
           (\E t \in Slots : tick[t].afterFail /\ tick[t].pc = "getVMs")

\* A tick activated after a failed one has run the collector and gone on
\* to the dispatch, the failed one still in its slot.
C2_Witness ==
    \E s, t \in Slots :
        /\ s # t
        /\ Failed(s)
        /\ tick[t].afterFail
        /\ tick[t].pc = "send"

\* C3: a tick whose collection failed (the command failed, or its output
\* did not decode) never invokes the dispatcher: it has returned with the
\* collection error and nothing was posted.
C3_FailedCollectionSendsNothing ==
    \A s \in Slots :
        tick[s].output.kind \in {"exec_err", "bad_json"} =>
            /\ tick[s].pc = "returned"
            /\ tick[s].err = "collect"
            /\ tick[s].posted = <<>>
            /\ tick[s].result = NoResult

\* Both kinds of failed collection have happened.
C3_Witness ==
    \E s, t \in Slots :
        /\ tick[s].output.kind = "exec_err"
        /\ tick[t].output.kind = "bad_json"
        /\ tick[s].pc = "returned"
        /\ tick[t].pc = "returned"

\* The places of the qemu and lxc elements of a decoded inventory, and the
\* place of the k-th of them.
Matching(rs) == {i \in DOMAIN rs : rs[i].Type \in {"qemu", "lxc"}}
KthMatch(rs, k) ==
    CHOOSE i \in Matching(rs) : Cardinality({j \in Matching(rs) : j <= i}) = k

\* C4: the batch of a successful collection is the subsequence of the
\* inventory's qemu and lxc elements: as many records as there are such
\* elements, the k-th record being the normalized k-th such element.
C4_BatchIsFilteredSubsequence ==
    batch # <<>> =>
        LET vms == batch[1].Vms
        IN  /\ Len(vms) = Cardinality(Matching(resources))
            /\ \A k \in 1..Len(vms) :
                 LET res == resources[KthMatch(resources, k)]
                 IN  /\ vms[k] = Normalize(res, userID)
                     /\ vms[k].Name = res.Name
                     /\ vms[k].VMID = res.VMID
                     /\ vms[k].Type = res.Type

\* A machine, an element of another type and a container, in this order,
\* gave a batch of the machine and the container.
C4_Witness ==
    /\ batch # <<>>
    /\ Len(resources) = 3
    /\ resources[1].Type = "qemu"
    /\ ~(resources[2].Type \in {"qemu", "lxc"})
    /\ resources[3].Type = "lxc"
    /\ Len(batch[1].Vms) = 2
    /\ batch[1].Vms[1].VMID = resources[1].VMID
    /\ batch[1].Vms[2].VMID = resources[3].VMID

\* C5: a dispatch reports success exactly when the collector answered with
\* status 200; a transport error and any other status are returned as an
\* error, and the process goes on.
C5_SuccessIffStatusOK ==
    \A s \in Slots :
        tick[s].posted # <<>> =>
            /\ (tick[s].err = "none") <=>
                   (tick[s].result.kind = "resp" /\ tick[s].result.status = 200)
            /\ tick[s].err \in {"none", "dispatch"}
            /\ mainpc = "blocked"

\* One dispatch was answered 500 and one 200; the first was reported as an
\* error and the second as a success.
C5_Witness ==
    \E s, t \in Slots :
        /\ tick[s].result = HttpStatus(500)
        /\ tick[s].err = "dispatch"
        /\ tick[t].result = HttpStatus(200)
        /\ tick[t].err = "none"
        /\ tick[t].posted # <<>>

\* C6: the job is activated every 5 minutes of wall-clock time: two
\* consecutive activations are 300 seconds apart, whatever the tick between
\* them did (a dispatch answered 500 included).
C6_ActivationsFiveMinutesApart == gap # 0 => gap = 300

\* C7: the operations of a run come in a fixed order: login is called once
\* and has succeeded before the job is registered and the scheduler
\* started, nothing is collected or dispatched before the scheduler runs,
\* and in a tick the dispatcher is invoked only with the collector's
\* completed result.
C7_FixedOrder ==
    /\ loginCalls <= 1
    /\ (entries > 0 \/ cronRunning) => (loginCalls = 1 /\ ~LoginFailed)
    /\ (collected \/ \E s \in Slots : tick[s].pc # "free") =>
           (cronRunning /\ entries = 1)
    /\ dispatched => collected
    /\ \A s \in Slots :
         (tick[s].pc = "send" \/ tick[s].posted # <<>>) => tick[s].output.kind = "ok"

\* A tick has collected and dispatched after the one login of the run.
C7_Witness ==
    /\ loginCalls = 1
    /\ \E s \in Slots : tick[s].posted # <<>> /\ tick[s].output.kind = "ok"

\* The batch of an inventory, by place: the normalized k-th reported element.
BatchOf(rs, uid) ==
    [UserId |-> uid,
     Vms |-> [k \in 1..Cardinality(Matching(rs)) |-> Normalize(rs[KthMatch(rs, k)], uid)]]

\* C8: ticks are independent: the batch a tick hands to the dispatcher and
\* the batch it transmits are built from that tick's inventory output and
\* nothing else, and a tick whose collection failed transmits nothing.
C8_BatchFromOwnOutputOnly ==
    \A s \in Slots :
        /\ tick[s].pc = "send" => tick[s].response = BatchOf(tick[s].output.recs, userID)
        /\ \A i \in DOMAIN tick[s].posted :
             /\ tick[s].output.kind = "ok"
             /\ tick[s].posted[i] = BatchOf(tick[s].output.recs, userID)

\* A tick activated after a failed one has transmitted an empty batch while
\* the records the failed tick had decoded are still in that tick's slot.
C8_Witness ==
    \E s, t \in Slots :
        /\ tick[t].output.kind = "bad_json"
        /\ tick[t].output.recs # <<>>
        /\ tick[s].afterFail
        /\ tick[s].posted = <<[UserId |-> userID, Vms |-> <<>>]>>

\* C9: a tick makes at most one dispatch attempt, and a tick whose dispatch
\* failed does nothing more: its slot changes only when a later activation
\* takes it, and that activation starts with no batch.
C9_NoResend ==
    /\ [](\A s \in Slots : Len(tick[s].posted) <= 1)
    /\ [][\A s \in Slots :
            tick[s].err = "dispatch" =>
                \/ tick'[s] = tick[s]
                \/ /\ tick'[s].pc = "getVMs"
                   /\ tick'[s].posted = <<>>
                   /\ tick'[s].response = NilResponse]_vars

\* A dispatch failed, and a tick activated afterwards made its own single
\* dispatch.
C9_Witness ==
    \E s, t \in Slots :
        /\ s # t
        /\ tick[s].err = "dispatch"
        /\ Len(tick[s].posted) = 1
        /\ tick[t].afterFail
        /\ tick[t].pc = "returned"
        /\ Len(tick[t].posted) = 1

\* h hundredths is a nearest two-decimal value of w + r / d (0 <= r < d, d a
\* power of 1024): |h * d - 100 * (w * d + r)| <= d / 2, in 32-bit steps.
Abs(n) == IF n < 0 THEN -n ELSE n
NearestHundredths(h, w, r, d) ==
    LET f == h - 100 * w
        x == f * (d \div 1024) - 100 * (r \div 1024)
    IN  /\ f \in 0..100
        /\ Abs(x) <= (d \div 2048) + 100
        /\ 2 * Abs(1024 * x - 100 * (r % 1024)) <= d

C11_TwoGiBOfBytesIsTwo ==
    batch # <<>> =>
        \A k \in 1..Len(batch[1].Vms) :
            resources[KthMatch(resources, k)].Mem = <<2, 0>> =>
                batch[1].Vms[k].Mem = 200

\* The exact value of a normalized number of h hundredths. The float64 that
\* ParseFloat gives for a two-decimal text differs from the text's value by
\* at most half a unit in the last place, below 2^-8 for values under 2^45.
AsQuotient(h) == [whole |-> h \div 100, rem |-> h % 100, den |-> 100]

\* The rounding step of lines 171-174 applied to a normalized number.
RoundAgain(h) == ParseFloat(Sprintf2f(AsQuotient(h)))

InProgress == {s \in Slots : tick[s].pc \in {"getVMs", "send"}}

\* C13: ticks never run concurrently: at any moment at most one invocation
\* of the tick is in progress, also when a tick lasts longer than the time
\* between two activations.
C13_AtMostOneTickInProgress == Cardinality(InProgress) <= 1

\* C14: userID is written once, by main after the login has succeeded and
\* before the scheduler is started, and never afterwards: it changes only
\* in the step of main that follows the login call, and once the scheduler
\* runs it is the userId the login returned.
C14_UserIDSetOnceAtStartup ==
    /\ [](cronRunning => (loginCalls = 1 /\ userID = loginResp.UserID))
    /\ [](mainpc \in {"loadenv", "login"} => userID = "")
    /\ [][userID' # userID => (mainpc = "login" /\ mainpc' = "addfunc")]_vars

\* Ticks have collected an inventory whose element carries another userId,
\* and dispatched, and userID is still what the login returned.
C14_Witness ==
    /\ cronRunning
    /\ userID = "u1"
    /\ loginResp.UserID = "u1"
    /\ \E s \in Slots :
         /\ tick[s].pc = "returned"
         /\ tick[s].posted # <<>>
         /\ tick[s].output.recs # <<>>
         /\ tick[s].output.recs[1].UserID = "u2"

\* Whether a Response carries the userId u in its tag and in every record.
TaggedWith(resp, u) ==
    /\ resp.UserId = u
    /\ \A k \in 1..Len(resp.Vms) : resp.Vms[k].UserID = u

\* C15: every batch handed to the dispatcher carries the userId the login
\* returned, in its tag and in each of its records, whatever userId the
\* inventory's elements carry.
C15_BatchTaggedWithLoginUserId ==
    \A s \in Slots :
        /\ tick[s].pc = "send" => TaggedWith(tick[s].response, loginResp.UserID)
        /\ \A i \in DOMAIN tick[s].posted :
             TaggedWith(tick[s].posted[i], loginResp.UserID)

\* A batch was posted whose record came from an element carrying the
\* userId u2 while the login had returned u1.
C15_Witness ==
    \E s \in Slots :
        /\ loginResp.UserID = "u1"
        /\ tick[s].posted # <<>>
        /\ tick[s].posted[1].Vms # <<>>
        /\ tick[s].posted[1].Vms[1].UserID = "u1"
        /\ tick[s].output.recs[1].UserID = "u2"

\* C16: a tick whose collection succeeded makes exactly one dispatch
\* attempt, an empty batch included: it is about to send, the send being
\* possible, or it has returned after one post.
C16_OneDispatchPerCollectedTick ==
    \A s \in Slots :
        tick[s].output.kind = "ok" =>
            \/ /\ tick[s].pc = "send"
               /\ tick[s].posted = <<>>
               /\ ENABLED TickSend(s)
            \/ /\ tick[s].pc = "returned"
               /\ Len(tick[s].posted) = 1

\* An inventory with no reported element was collected and an empty batch
\* was posted.
C16_Witness ==
    \E s \in Slots :
        /\ tick[s].output.kind = "ok"
        /\ tick[s].output.recs # <<>>
        /\ Matching(tick[s].output.recs) = {}
        /\ tick[s].pc = "returned"
        /\ Len(tick[s].posted) = 1
        /\ tick[s].posted[1].Vms = <<>>

\* C17: normalization leaves name, vmid, type, status, cpu and maxcpu as
\* they are in the inventory element the record was made from.
C17_OtherFieldsUnchanged ==
    batch # <<>> =>
        \A k \in 1..Len(batch[1].Vms) :
            LET res == resources[KthMatch(resources, k)]
                vm  == batch[1].Vms[k]
            IN  /\ vm.Name = res.Name
                /\ vm.VMID = res.VMID
                /\ vm.Type = res.Type
                /\ vm.Status = res.Status
                /\ vm.CPU = res.CPU
                /\ vm.MaxCPU = res.MaxCPU

\* A batch of two records that differ in each of the six fields, made from
\* elements whose converted values changed.
C17_Witness ==
    /\ batch # <<>>
    /\ Len(batch[1].Vms) = 2
    /\ LET a == batch[1].Vms[1]
           b == batch[1].Vms[2]
       IN  /\ a.Name # b.Name /\ a.VMID # b.VMID /\ a.Type # b.Type
           /\ a.Status # b.Status /\ a.CPU # b.CPU /\ a.MaxCPU # b.MaxCPU
           /\ a.UserID # resources[KthMatch(resources, 1)].UserID

====
